---------------------------- MODULE Spec2Model ----------------------------
(***************************************************************************)
(* RedisJWTHashStore (src/unnamed/part_000): a thin client over a Redis    *)
(* store that files SHA-256 fingerprints of JWTs under a "valid" and a     *)
(* "blacklisted" key prefix.                                               *)
(*                                                                         *)
(* Strings are sequences of one-character strings, so that key             *)
(* composition and the store's glob matching are computed character by     *)
(* character.  Every await of the code is one atomic round trip to the     *)
(* store; calls of several clients interleave at that granularity.  Time   *)
(* is the remaining time-to-live of each key, in whole seconds.            *)
(***************************************************************************)
EXTENDS Integers, Sequences, FiniteSets, TLC

(* ------------------------------ bounds --------------------------------- *)
\* total number of operations invoked in one behaviour
MaxCalls == 3
\* largest positive expiration passed by a caller
MaxTTL == 2
\* total number of operations invoked by two interleaving clients
MaxConcCalls == 2

\* the clients of the store
Procs == {1, 2}

(* ------------------------------ inputs --------------------------------- *)
tokA == <<"t", "o", "k", "-", "A">>
tokB == <<"t", "o", "k", "-", "B">>
Tokens == {tokA, tokB}

\* identifiers: a plain one, one holding the ':' delimiter, one holding
\* glob metacharacters
idU == <<"u">>
idUV == <<"u", ":", "v">>
idBr == <<"[", "u", "]">>
KeyNames == {idU, idBr}

loc1 == <<"c", "1">>
loc2 == <<"c", "2">>
Locales == {loc1}

\* the expiration argument: undefined, or a number
Undefined == [kind |-> "undefined", n |-> 0]
Num(k) == [kind |-> "number", n |-> k]
Expirations == {Undefined} \cup {Num(k) : k \in (-1)..MaxTTL}

(* --------------------------- configuration ----------------------------- *)
prefixValid == <<"v", "a", "l", "i", "d", "-", "j", "w", "t">>
prefixBlacklist ==
  <<"b", "l", "a", "c", "k", "l", "i", "s", "t", "e", "d", "-", "j", "w", "t">>
Prefixes == {prefixValid, prefixBlacklist}

(* ------------------------------ hashJWT -------------------------------- *)
\* crypto.createHash('sha256').update(jwtToken).digest('hex'), tabulated on
\* Tokens
sha256hex_tokA ==
  <<"7", "1", "7", "8", "7", "6", "b", "4", "9", "c", "d", "1", "1", "5", "5", "c",
    "2", "f", "9", "d", "c", "2", "4", "7", "c", "7", "4", "3", "8", "b", "0", "b",
    "a", "8", "2", "0", "6", "6", "a", "6", "e", "a", "7", "1", "a", "e", "5", "a",
    "0", "6", "9", "f", "5", "0", "6", "b", "b", "5", "2", "c", "7", "f", "8", "e">>
sha256hex_tokB ==
  <<"c", "b", "5", "d", "d", "a", "c", "c", "0", "c", "4", "d", "a", "a", "2", "e",
    "e", "c", "3", "a", "6", "4", "9", "8", "d", "0", "1", "3", "f", "1", "9", "8",
    "8", "a", "4", "5", "c", "f", "e", "c", "1", "1", "9", "3", "f", "4", "2", "f",
    "a", "2", "e", "9", "7", "b", "7", "b", "8", "5", "1", "8", "6", "2", "8", "9">>

hashJWT(jwtToken) ==
  IF jwtToken = tokA THEN sha256hex_tokA ELSE sha256hex_tokB

(* ---------------------------- key templates ---------------------------- *)
\* `${a}:${b}:${c}`
composeKey(a, b, c) == a \o <<":">> \o b \o <<":">> \o c

\* slip: the valid store files the record under the blacklist prefix
storeValidKey_wrongPrefix(keyName, rawJWT) ==
  composeKey(prefixBlacklist, keyName, hashJWT(rawJWT))

storeValidKey(keyName, rawJWT) ==
  composeKey(prefixValid, keyName, hashJWT(rawJWT))

storeBlacklistedKey(keyName, rawJWT) ==
  composeKey(prefixBlacklist, keyName, hashJWT(rawJWT))

\* slip: the first existence check addresses the valid key
blacklistedKey_swapped(keyName, rawJWT) ==
  composeKey(prefixValid, keyName, hashJWT(rawJWT))

blacklistedKey(keyName, rawJWT) ==
  composeKey(prefixBlacklist, keyName, hashJWT(rawJWT))

\* slip: validate looks the valid record up under the blacklist prefix
validKey_wrongPrefix(keyName, rawJWT) ==
  composeKey(prefixBlacklist, keyName, hashJWT(rawJWT))

validKey(keyName, rawJWT) ==
  composeKey(prefixValid, keyName, hashJWT(rawJWT))

\* slip: deleteRecord ignores its prefix argument
deleteRecordKey_ignoresPrefix(prefix, keyName, rawJWT) ==
  composeKey(prefixValid, keyName, hashJWT(rawJWT))

deleteRecordKey(prefix, keyName, rawJWT) ==
  composeKey(prefix, keyName, hashJWT(rawJWT))

\* `${prefix}:${keyName}:*`
deletePattern(prefix, keyName) == composeKey(prefix, keyName, <<"*">>)

\* slip: the context is left out of the written fields
recordFields_withoutLocale(keyName, rawJWT, locale) ==
  [keyName |-> keyName, jwtHash |-> hashJWT(rawJWT)]

\* slip: the raw token is written where its hash belongs
recordFields_rawJWT(keyName, rawJWT, locale) ==
  [keyName |-> keyName, locale |-> locale, jwtHash |-> rawJWT]

\* { keyName, jwtHash, locale }
recordFields(keyName, rawJWT, locale) ==
  [keyName |-> keyName, locale |-> locale, jwtHash |-> hashJWT(rawJWT)]

\* slip: the expiration argument is ignored
shouldExpire_never(expiration) == FALSE

\* slip: expiration >= 0
shouldExpire_orZero(expiration) ==
  /\ expiration.kind = "number"
  /\ expiration.n >= 0

\* expiration && expiration > 0
shouldExpire(expiration) ==
  /\ expiration.kind = "number"
  /\ expiration.n # 0
  /\ expiration.n > 0

(* ------------------------------ the store ------------------------------ *)
\* a key without expiration
NoTTL == -1

\* glob matching of the store's key listing: '*', '?', '[...]' with '^'
\* negation, and '\' escapes
RECURSIVE classScan(_, _, _)
classScan(p, ch, m) ==
  IF p = <<>> THEN [match |-> m, rest |-> <<>>]
  ELSE IF Head(p) = "\\" /\ Len(p) >= 2
       THEN classScan(Tail(Tail(p)), ch, m \/ p[2] = ch)
  ELSE IF Head(p) = "]" THEN [match |-> m, rest |-> Tail(p)]
  ELSE classScan(Tail(p), ch, m \/ Head(p) = ch)

RECURSIVE stringmatch(_, _)
stringmatch(p, s) ==
  IF p = <<>> THEN s = <<>>
  ELSE IF Head(p) = "*"
       THEN \E k \in 0..Len(s) : stringmatch(Tail(p), SubSeq(s, k + 1, Len(s)))
  ELSE IF s = <<>> THEN FALSE
  ELSE IF Head(p) = "?" THEN stringmatch(Tail(p), Tail(s))
  ELSE IF Head(p) = "["
       THEN LET neg == Len(p) >= 2 /\ p[2] = "^"
                body == IF neg THEN Tail(Tail(p)) ELSE Tail(p)
                r == classScan(body, Head(s), FALSE)
            IN  (r.match # neg) /\ stringmatch(r.rest, Tail(s))
  ELSE IF Head(p) = "\\" /\ Len(p) >= 2
       THEN p[2] = Head(s) /\ stringmatch(Tail(Tail(p)), Tail(s))
  ELSE Head(p) = Head(s) /\ stringmatch(Tail(p), Tail(s))

\* client.hSet(key, fields): sets the given fields of the hash at key (its
\* other fields stay), keeps the key's expiration
hSet(st, key, fields) ==
  LET ttl == IF key \in DOMAIN st THEN st[key].ttl ELSE NoTTL
      old == IF key \in DOMAIN st THEN st[key].fields ELSE <<>>
      merged == [f \in DOMAIN old \cup DOMAIN fields |->
                   IF f \in DOMAIN fields THEN fields[f] ELSE old[f]]
  IN  [k \in DOMAIN st \cup {key} |->
         IF k = key THEN [fields |-> merged, ttl |-> ttl] ELSE st[k]]

\* client.expire(key, seconds): replaces the expiration of an existing key
\* (a non-positive number of seconds removes the key)
expire(st, key, seconds) ==
  IF seconds <= 0 THEN [k \in DOMAIN st \ {key} |-> st[k]]
  ELSE [k \in DOMAIN st |->
          IF k = key THEN [st[k] EXCEPT !.ttl = seconds] ELSE st[k]]

\* client.exists(key)
exists(st, key) == key \in DOMAIN st

\* client.del(key | keys)
del(st, ks) == [k \in DOMAIN st \ ks |-> st[k]]

\* client.keys(pattern)
keys(st, pattern) == {k \in DOMAIN st : stringmatch(pattern, k)}

\* one second passes: finite expirations count down, elapsed keys vanish
elapse(st) ==
  [k \in {j \in DOMAIN st : st[j].ttl # 1} |->
     IF st[k].ttl = NoTTL THEN st[k] ELSE [st[k] EXCEPT !.ttl = @ - 1]]

(* ------------------------------- state --------------------------------- *)
VARIABLES
  store,    \* key -> [fields, ttl], the keys that exist
  pc,       \* per client: the await its call is suspended at
  call,     \* per client: the operation invoked and its arguments
  found,    \* per client: deleteAllByKeyName's `keys`
  res,      \* per client: outcome of its last call
  log,      \* per client: store requests issued by its current call
  quiet,    \* per client: nothing but its own steps occurred since its call began
  ncalls,   \* operations invoked so far
  hist,     \* per client: what the store held at the instants of its validateJWT call
  probe     \* key composition applied to two (prefix, identifier, token) triples

vars == <<store, pc, call, found, res, log, quiet, ncalls, hist, probe>>

NoCall ==
  [keyName |-> <<>>, rawJWT |-> <<>>, prefix |-> <<>>, locale |-> <<>>,
   expiration |-> Undefined, op |-> "none"]

\* no instant observed
NoHist ==
  [blAbsent |-> FALSE, blPresent |-> FALSE, blAlways |-> FALSE, vaAfter |-> FALSE]

\* the first instant of a validateJWT call, at store st
FirstInstant(st, bl, va) ==
  [blAbsent |-> bl \notin DOMAIN st, blPresent |-> bl \in DOMAIN st,
   blAlways |-> bl \in DOMAIN st, vaAfter |-> FALSE]

\* one more instant of the call, at store st: was the blacklisted key ever
\* absent, ever present, always present; was the valid key present at an
\* instant after one at which the blacklisted key was absent
NextInstant(h, st, bl, va) ==
  [blAbsent |-> h.blAbsent \/ bl \notin DOMAIN st,
   blPresent |-> h.blPresent \/ bl \in DOMAIN st,
   blAlways |-> h.blAlways /\ bl \in DOMAIN st,
   vaAfter |-> h.vaAfter \/ (h.blAbsent /\ va \in DOMAIN st)]

\* every validateJWT call that has not returned sees the store st
Observed(st) ==
  [q \in Procs |->
     IF call[q].op = "validateJWT" /\ pc[q] # "done"
     THEN NextInstant(hist[q], st,
                      blacklistedKey(call[q].keyName, call[q].rawJWT),
                      validKey(call[q].keyName, call[q].rawJWT))
     ELSE hist[q]]

NoProbe == <<>>

Init ==
  /\ hist = [p \in Procs |-> NoHist]
  /\ probe = NoProbe
  /\ store = <<>>
  /\ pc = [p \in Procs |-> "idle"]
  /\ call = [p \in Procs |-> NoCall]
  /\ found = [p \in Procs |-> {}]
  /\ res = [p \in Procs |-> "none"]
  /\ log = [p \in Procs |-> <<>>]
  /\ quiet = [p \in Procs |-> FALSE]
  /\ ncalls = 0

Request(cmd, args) == [cmd |-> cmd, args |-> args]

\* client p invokes an operation: runs up to its first await
Invoke(p, c, first) ==
  /\ pc[p] \in {"idle", "done"}
  /\ ncalls < MaxCalls
  /\ ncalls' = ncalls + 1
  /\ call' = [call EXCEPT ![p] = c]
  /\ pc' = [pc EXCEPT ![p] = first]
  /\ res' = [res EXCEPT ![p] = "none"]
  /\ log' = [log EXCEPT ![p] = <<>>]
  /\ found' = [found EXCEPT ![p] = {}]
  /\ quiet' = [q \in Procs |-> q = p]
  /\ hist' = [hist EXCEPT ![p] =
                IF c.op = "validateJWT"
                THEN FirstInstant(store, blacklistedKey(c.keyName, c.rawJWT),
                                  validKey(c.keyName, c.rawJWT))
                ELSE NoHist]
  /\ UNCHANGED <<store, probe>>

\* client p's pending request is answered: the call goes on to `next`
Step(p, req, next, result) ==
  /\ pc' = [pc EXCEPT ![p] = next]
  /\ res' = [res EXCEPT ![p] = result]
  /\ log' = [log EXCEPT ![p] = Append(@, req)]
  /\ quiet' = [q \in Procs |-> q = p /\ quiet[p]]
  /\ hist' = Observed(store')
  /\ UNCHANGED <<call, ncalls, probe>>


(* -------------------- storeValidJWT / storeBlacklistedJWT -------------- *)
StoreCall(op, keyName, rawJWT, locale, expiration) ==
  [keyName |-> keyName, rawJWT |-> rawJWT, prefix |-> <<>>, locale |-> locale,
   expiration |-> expiration, op |-> op]

\* redisKey of the store call c
redisKey(c) ==
  IF c.op = "storeValidJWT" THEN storeValidKey(c.keyName, c.rawJWT)
  ELSE IF c.op = "storeBlacklistedJWT" THEN storeBlacklistedKey(c.keyName, c.rawJWT)
  ELSE deleteRecordKey(c.prefix, c.keyName, c.rawJWT)

storeValidJWT(p, keyName, rawJWT, locale, expiration) ==
  Invoke(p, StoreCall("storeValidJWT", keyName, rawJWT, locale, expiration),
         "hSet")

storeBlacklistedJWT(p, keyName, rawJWT, locale, expiration) ==
  Invoke(p, StoreCall("storeBlacklistedJWT", keyName, rawJWT, locale, expiration),
         "hSet")

\* await this.client.hSet(redisKey, { keyName, jwtHash, locale })
HSetReply(p) ==
  /\ pc[p] = "hSet"
  /\ LET c == call[p]
         key == redisKey(c)
     IN  /\ store' = hSet(store, key, recordFields(c.keyName, c.rawJWT, c.locale))
         /\ IF shouldExpire(c.expiration)
            THEN Step(p, Request("HSET", {key}), "expire", "none")
            ELSE Step(p, Request("HSET", {key}), "done", "ok")
  /\ UNCHANGED found

\* await this.client.expire(redisKey, expiration)
ExpireReply(p) ==
  /\ pc[p] = "expire"
  /\ LET c == call[p]
         key == redisKey(c)
     IN  /\ store' = expire(store, key, c.expiration.n)
         /\ Step(p, Request("EXPIRE", {key}), "done", "ok")
  /\ UNCHANGED found

(* ------------------------------ validateJWT ---------------------------- *)
validateJWT(p, keyName, rawJWT) ==
  Invoke(p, [NoCall EXCEPT !.op = "validateJWT", !.keyName = keyName,
                           !.rawJWT = rawJWT],
         "existsBlacklisted")

\* slip: if (!blacklistedExists) throw
blacklistedVerdict_inverted(blacklistedExists) ==
  IF ~blacklistedExists THEN [next |-> "done", result |-> "Blacklisted"]
  ELSE [next |-> "existsValid", result |-> "none"]

\* slip: the blacklist check does not throw
blacklistedVerdict_ignored(blacklistedExists) ==
  [next |-> "existsValid", result |-> "none"]

\* if (blacklistedExists) throw new Error('JWT is blacklisted')
blacklistedVerdict(blacklistedExists) ==
  IF blacklistedExists THEN [next |-> "done", result |-> "Blacklisted"]
  ELSE [next |-> "existsValid", result |-> "none"]

\* slip: if (validExists) throw
validVerdict_inverted(validExists) ==
  IF validExists THEN "NotFound" ELSE "ok"

\* slip: the valid check does not throw
validVerdict_alwaysTrue(validExists) == "ok"

\* if (!validExists) throw new Error('JWT does not exist in valid list');
\* return true
validVerdict(validExists) ==
  IF ~validExists THEN "NotFound" ELSE "ok"

\* const blacklistedExists = await this.client.exists(blacklistedKey)
ExistsBlacklistedReply(p) ==
  /\ pc[p] = "existsBlacklisted"
  /\ LET key == blacklistedKey(call[p].keyName, call[p].rawJWT)
         v == blacklistedVerdict(exists(store, key))
     IN  /\ UNCHANGED <<store, found>>
         /\ Step(p, Request("EXISTS", {key}), v.next, v.result)

\* const validExists = await this.client.exists(validKey)
ExistsValidReply(p) ==
  /\ pc[p] = "existsValid"
  /\ LET key == validKey(call[p].keyName, call[p].rawJWT)
     IN  /\ UNCHANGED <<store, found>>
         /\ Step(p, Request("EXISTS", {key}), "done",
                 validVerdict(exists(store, key)))

(* ------------------------------ deleteRecord --------------------------- *)
deleteRecord(p, prefix, keyName, rawJWT) ==
  Invoke(p, [NoCall EXCEPT !.op = "deleteRecord", !.prefix = prefix,
                           !.keyName = keyName, !.rawJWT = rawJWT],
         "del")

\* await this.client.del(redisKey)
DelReply(p) ==
  /\ pc[p] = "del"
  /\ LET key == redisKey(call[p])
     IN  /\ store' = del(store, {key})
         /\ Step(p, Request("DEL", {key}), "done", "ok")
  /\ UNCHANGED found

(* --------------------------- deleteAllByKeyName ------------------------ *)
deleteAllByKeyName(p, prefix, keyName) ==
  Invoke(p, [NoCall EXCEPT !.op = "deleteAllByKeyName", !.prefix = prefix,
                           !.keyName = keyName],
         "keys")

\* the store command that enumerates the matching keys
listCommand == "KEYS"

\* slip: the bulk delete is issued whatever the enumeration returned
shouldDelete_always(ks) == TRUE

\* if (keys.length > 0)
shouldDelete(ks) == Cardinality(ks) > 0

\* const keys = await this.client.keys(pattern); if (keys.length > 0) ...
KeysReply(p) ==
  /\ pc[p] = "keys"
  /\ LET pattern == deletePattern(call[p].prefix, call[p].keyName)
         ks == keys(store, pattern)
     IN  /\ found' = [found EXCEPT ![p] = ks]
         /\ UNCHANGED store
         /\ IF shouldDelete(ks)
            THEN Step(p, Request(listCommand, {pattern}), "delKeys", "none")
            ELSE Step(p, Request(listCommand, {pattern}), "done", "ok")

\* slip: this.client.del(keys[0])
bulkDeleteArgs_first(ks) == {CHOOSE k \in ks : TRUE}

\* the argument of this.client.del(keys)
bulkDeleteArgs(ks) == ks

\* await this.client.del(keys)
DelKeysReply(p) ==
  /\ pc[p] = "delKeys"
  /\ store' = del(store, bulkDeleteArgs(found[p]))
  /\ Step(p, Request("DEL", bulkDeleteArgs(found[p])), "done", "ok")
  /\ UNCHANGED found

(* ------------------------------ environment ---------------------------- *)
Pending == {"hSet", "expire", "existsBlacklisted", "existsValid", "del",
            "keys", "delKeys"}

\* the request the call of p is suspended at
pendingRequest(p) ==
  LET c == call[p]
  IN  CASE pc[p] = "hSet" -> Request("HSET", {redisKey(c)})
        [] pc[p] = "expire" -> Request("EXPIRE", {redisKey(c)})
        [] pc[p] = "existsBlacklisted" ->
             Request("EXISTS", {blacklistedKey(c.keyName, c.rawJWT)})
        [] pc[p] = "existsValid" ->
             Request("EXISTS", {validKey(c.keyName, c.rawJWT)})
        [] pc[p] = "del" -> Request("DEL", {redisKey(c)})
        [] pc[p] = "keys" ->
             Request(listCommand, {deletePattern(c.prefix, c.keyName)})
        [] pc[p] = "delKeys" -> Request("DEL", bulkDeleteArgs(found[p]))

\* slip: a rejected request is caught and issued again
rejected_retried(at) == [next |-> at, result |-> "none"]

\* no try/catch around any await: the rejection leaves the async method
rejected(at) == [next |-> "done", result |-> "StoreError"]

\* the pending request fails (connection or protocol error): the awaited
\* promise rejects and the error propagates out of the call; the command
\* is not applied
StoreFailure(p) ==
  /\ pc[p] \in Pending
  /\ UNCHANGED <<store, found>>
  /\ LET r == rejected(pc[p])
     IN  Step(p, pendingRequest(p), r.next, r.result)

\* one second passes at the store
Tick ==
  /\ \E k \in DOMAIN store : store[k].ttl # NoTTL
  /\ store' = elapse(store)
  /\ quiet' = [q \in Procs |-> FALSE]
  /\ hist' = Observed(store')
  /\ UNCHANGED <<pc, call, found, res, log, ncalls, probe>>

(* --------------------- one client, calls in sequence ------------------- *)
Next ==
  \/ \E keyName \in KeyNames, rawJWT \in Tokens, locale \in Locales,
        expiration \in Expirations :
       storeValidJWT(1, keyName, rawJWT, locale, expiration)
  \/ \E keyName \in KeyNames, rawJWT \in Tokens, locale \in Locales,
        expiration \in Expirations :
       storeBlacklistedJWT(1, keyName, rawJWT, locale, expiration)
  \/ HSetReply(1)
  \/ ExpireReply(1)
  \/ \E keyName \in KeyNames, rawJWT \in Tokens : validateJWT(1, keyName, rawJWT)
  \/ ExistsBlacklistedReply(1)
  \/ ExistsValidReply(1)
  \/ \E prefix \in Prefixes, keyName \in KeyNames, rawJWT \in Tokens :
       deleteRecord(1, prefix, keyName, rawJWT)
  \/ DelReply(1)
  \/ \E prefix \in Prefixes, keyName \in KeyNames :
       deleteAllByKeyName(1, prefix, keyName)
  \/ KeysReply(1)
  \/ DelKeysReply(1)
  \/ StoreFailure(1)
  \/ Tick

Spec == Init /\ [][Next]_vars

(* ------------------------------ properties ----------------------------- *)
\* the record key of (prefix, keyName, rawJWT), spelled out independently
\* of the operations' own key templates
KeyOf(prefix, keyName, rawJWT) ==
  prefix \o <<":">> \o keyName \o <<":">> \o hashJWT(rawJWT)

StoreOps == {"storeValidJWT", "storeBlacklistedJWT"}
PrefixOfOp(op) == IF op = "storeValidJWT" THEN prefixValid ELSE prefixBlacklist
Positive(expiration) == expiration.kind = "number" /\ expiration.n > 0
Has(k) == k \in DOMAIN store

\* the call of p has returned; nothing else happened at the store since it
\* was invoked (no step of another client, no second elapsed), so the store
\* is the one the call ran against
Finished(p, op) == pc[p] = "done" /\ call[p].op = op /\ quiet[p]
BlKey(p) == KeyOf(prefixBlacklist, call[p].keyName, call[p].rawJWT)
VaKey(p) == KeyOf(prefixValid, call[p].keyName, call[p].rawJWT)

\* C1: Precedence.  When both the blacklisted key and the valid key of
\* (I, fingerprint(T)) exist, a validateJWT(I, T) that ran without concurrent
\* activity and without a store failure ended with 'JWT is blacklisted'.
C1_Precedence ==
  \A p \in Procs :
    (Finished(p, "validateJWT") /\ res[p] # "StoreError"
       /\ Has(BlKey(p)) /\ Has(VaKey(p)))
      => res[p] = "Blacklisted"

\* both records exist and validate has answered Blacklisted
C1_Witness ==
  \E p \in Procs :
    /\ Finished(p, "validateJWT") /\ res[p] = "Blacklisted"
    /\ Has(BlKey(p)) /\ Has(VaKey(p))

\* C2: deleteAllByKeyName never issues the blocking full key listing (KEYS).
C2_NoBlockingKeyListing ==
  \A p \in Procs : \A i \in DOMAIN log[p] : log[p][i].cmd # "KEYS"

\* C3: When the valid key exists and the blacklisted key does not, a
\* validateJWT that ran without concurrent activity and without a store
\* failure returned true; when the blacklisted key exists (the token was
\* blacklisted afterwards) it failed with Blacklisted.
C3_ValidSucceeds ==
  \A p \in Procs :
    (Finished(p, "validateJWT") /\ res[p] # "StoreError")
      => /\ (Has(VaKey(p)) /\ ~Has(BlKey(p))) => res[p] = "ok"
         /\ Has(BlKey(p)) => res[p] = "Blacklisted"

\* validate has returned true for a recorded valid token
C3_Witness ==
  \E p \in Procs :
    /\ Finished(p, "validateJWT") /\ res[p] = "ok"
    /\ Has(VaKey(p)) /\ ~Has(BlKey(p))
    /\ ncalls >= 2

\* C4: Absence.  When neither record of (I, T) exists, a validateJWT that
\* ran without concurrent activity and without a store failure failed with
\* 'JWT does not exist in valid list'.
C4_Absence ==
  \A p \in Procs :
    (Finished(p, "validateJWT") /\ res[p] # "StoreError"
       /\ ~Has(VaKey(p)) /\ ~Has(BlKey(p)))
      => res[p] = "NotFound"

\* validate has answered NotFound for a token whose records are gone, in a
\* store that still holds other records
C4_Witness ==
  \E p \in Procs :
    /\ Finished(p, "validateJWT") /\ res[p] = "NotFound"
    /\ ~Has(VaKey(p)) /\ ~Has(BlKey(p))
    /\ ncalls = MaxCalls

\* C5: A store call that returns an error has applied none of its effects:
\* it never ends in failure after its own field write was answered, with the
\* record's fields in the store.
C5_NoPartialOutcome ==
  \A p \in Procs :
    (pc[p] = "done" /\ call[p].op \in StoreOps /\ res[p] = "StoreError"
       /\ quiet[p])
      => LET k == KeyOf(PrefixOfOp(call[p].op), call[p].keyName, call[p].rawJWT)
         IN  ~(/\ Len(log[p]) > 1
               /\ log[p][1].cmd = "HSET"
               /\ Has(k)
               /\ store[k].fields.locale = call[p].locale)

\* C6: Bulk deletion.  After deleteAllByKeyName(category, I) completed with
\* no concurrent activity, no key of that category and identifier exists.
C6_BulkDeletion ==
  \A p \in Procs :
    (Finished(p, "deleteAllByKeyName") /\ res[p] = "ok")
      => \A t \in Tokens : ~Has(KeyOf(call[p].prefix, call[p].keyName, t))

\* C7: Deletion.  The step that completes deleteRecord(category, I, T)
\* without a store failure returns success and leaves the key of
\* (category, I, fingerprint(T)) absent; if the key did not exist, the store
\* is unchanged.
C7_Deletion ==
  [][\A p \in Procs :
       (pc[p] = "del" /\ pc'[p] = "done" /\ res'[p] # "StoreError")
         => LET k == KeyOf(call[p].prefix, call[p].keyName, call[p].rawJWT)
            IN  /\ res'[p] = "ok"
                /\ k \notin DOMAIN store'
                /\ \A j \in DOMAIN store : j # k => (j \in DOMAIN store' /\ store'[j] = store[j])
                /\ DOMAIN store' \subseteq DOMAIN store
                /\ (k \notin DOMAIN store => store' = store)]_vars

\* deleteRecord of a record that does not exist has returned success, other
\* records still being there
C7_Witness ==
  \E p \in Procs :
    /\ Finished(p, "deleteRecord") /\ res[p] = "ok"
    /\ call[p].prefix = prefixBlacklist
    /\ ncalls = 2
    /\ store # <<>>
    /\ \A k \in DOMAIN store : store[k].fields.keyName = call[p].keyName
                               /\ store[k].fields.jwtHash = hashJWT(call[p].rawJWT)

\* C8: Expiration set.  The step that completes a store call with a positive
\* ttlSeconds successfully leaves the record's key with a remaining
\* time-to-live > 0 and <= ttlSeconds.
C8_ExpirationSet ==
  [][\A p \in Procs :
       (call[p].op \in StoreOps /\ Positive(call[p].expiration)
          /\ pc[p] # "done" /\ pc'[p] = "done" /\ res'[p] = "ok")
         => LET k == KeyOf(PrefixOfOp(call[p].op), call[p].keyName, call[p].rawJWT)
            IN  /\ k \in DOMAIN store'
                /\ store'[k].ttl > 0
                /\ store'[k].ttl <= call[p].expiration.n]_vars

\* C9: Expiration not set.  A store call whose ttlSeconds is 0, negative or
\* undefined completes with its field write, without issuing an expiration
\* request; a key it created has no expiration, and a key that existed keeps
\* the expiration it had.
C9_ExpirationNotSet ==
  [][\A p \in Procs :
       (call[p].op \in StoreOps /\ ~Positive(call[p].expiration)
          /\ pc[p] = "hSet" /\ pc'[p] # "hSet" /\ res'[p] # "StoreError")
         => LET k == KeyOf(PrefixOfOp(call[p].op), call[p].keyName, call[p].rawJWT)
            IN  /\ pc'[p] = "done" /\ res'[p] = "ok"
                /\ \A i \in DOMAIN log'[p] : log'[p][i].cmd # "EXPIRE"
                /\ k \in DOMAIN store'
                /\ store'[k].ttl = IF k \in DOMAIN store THEN store[k].ttl ELSE NoTTL]_vars

\* a store call without expiration has completed on a key that keeps the
\* finite expiration it had
C9_Witness ==
  \E p \in Procs :
    /\ pc[p] = "done" /\ call[p].op \in StoreOps /\ res[p] = "ok" /\ quiet[p]
    /\ ~Positive(call[p].expiration)
    /\ LET k == KeyOf(PrefixOfOp(call[p].op), call[p].keyName, call[p].rawJWT)
       IN  Has(k) /\ store[k].ttl # NoTTL

\* C10: Category isolation.  Every step of storeValidJWT(I, T, ...) leaves
\* every key other than the valid key of (I, fingerprint(T)) as it was
\* (not created, not modified, not removed), and every step of
\* storeBlacklistedJWT every key other than the blacklisted key.
C10_CategoryIsolation ==
  [][\A p \in Procs :
       (call[p].op \in StoreOps /\ pc[p] \in {"hSet", "expire"} /\ pc'[p] # pc[p])
         => LET k == KeyOf(PrefixOfOp(call[p].op), call[p].keyName, call[p].rawJWT)
            IN  /\ DOMAIN store' \ {k} = DOMAIN store \ {k}
                /\ \A j \in DOMAIN store \ {k} : store'[j] = store[j]]_vars

\* storeValidJWT has completed while the blacklisted record of the same
\* (I, T) exists with an expiration of its own
C10_Witness ==
  \E p \in Procs :
    /\ pc[p] = "done" /\ call[p].op = "storeValidJWT" /\ res[p] = "ok" /\ quiet[p]
    /\ Has(VaKey(p)) /\ Has(BlKey(p))
    /\ store[VaKey(p)].ttl # store[BlKey(p)].ttl

(* ------------- callers in turn, one record, two contexts --------------- *)
\* no call is in flight
AllReturned == \A q \in Procs : pc[q] \in {"idle", "done"}

NextFields ==
  \/ \E p \in Procs, locale \in {loc1, loc2}, expiration \in Expirations :
       AllReturned /\ storeValidJWT(p, idU, tokA, locale, expiration)
  \/ \E p \in Procs, locale \in {loc1, loc2}, expiration \in Expirations :
       AllReturned /\ storeBlacklistedJWT(p, idU, tokA, locale, expiration)
  \/ \E p \in Procs : HSetReply(p)
  \/ \E p \in Procs : ExpireReply(p)
  \/ \E p \in Procs : StoreFailure(p)
  \/ Tick

SpecFields == Init /\ [][NextFields]_vars

\* the key and the fields a store call is to leave
StoreKeyOf(p) == KeyOf(PrefixOfOp(call[p].op), call[p].keyName, call[p].rawJWT)
FieldsOf(p) ==
  [keyName |-> call[p].keyName, locale |-> call[p].locale,
   jwtHash |-> hashJWT(call[p].rawJWT)]

\* C11: When the field write of storeValidJWT(I, T, C, ttl) (resp.
\* storeBlacklistedJWT) is answered, the record under '<prefix>:<I>:<sha256hex(T)>'
\* holds exactly {keyName: I, jwtHash: fingerprint(T), locale: C}, whatever it
\* held before, and it still does whenever it exists when the call returns.
C11_RecordFields ==
  [][\A p \in Procs :
       (call[p].op \in StoreOps /\ pc[p] \in {"hSet", "expire"}
          /\ pc'[p] # pc[p] /\ res'[p] # "StoreError")
         => /\ pc[p] = "hSet" => StoreKeyOf(p) \in DOMAIN store'
            /\ StoreKeyOf(p) \in DOMAIN store'
                 => store'[StoreKeyOf(p)].fields = FieldsOf(p)]_vars

\* a call with context c1 was followed by a call for the same record with
\* context c2, and the record holds c2
C11_Witness ==
  /\ pc[1] = "done" /\ pc[2] = "done" /\ ncalls = 2 /\ quiet[2]
  /\ res[1] = "ok" /\ res[2] = "ok"
  /\ call[1].op \in StoreOps /\ call[2].op = call[1].op
  /\ call[1].locale = loc1 /\ call[2].locale = loc2
  /\ Has(StoreKeyOf(2))
  /\ store[StoreKeyOf(2)].fields = FieldsOf(2)

(* ----------------- key composition as a pure function ------------------ *)
\* constructor options { prefixValid, prefixBlacklist }: the defaults, the
\* custom pair of the constructor test, and a namespaced pair
customValid == <<"c", "u", "s", "t", "o", "m", "-", "v", "a", "l", "i", "d">>
customBlacklist ==
  <<"c", "u", "s", "t", "o", "m", "-", "b", "l", "a", "c", "k", "l", "i", "s", "t">>
nsValid == <<"j", "w", "t">>
nsBlacklist == <<"j", "w", "t", ":", "b">>
PrefixConfigs ==
  { [valid |-> prefixValid, blacklist |-> prefixBlacklist],
    [valid |-> customValid, blacklist |-> customBlacklist],
    [valid |-> nsValid, blacklist |-> nsBlacklist] }

idBU == <<"b", ":", "u">>
ProbeKeyNames == {idU, idUV, idBU, idBr}

\* the (category-prefix, identifier, fingerprint) triples under configuration c
Triples(c) ==
  [keyName : ProbeKeyNames, prefix : {c.valid, c.blacklist},
   jwtHash : {hashJWT(t) : t \in Tokens}]

InitKeys ==
  /\ hist = [p \in Procs |-> NoHist]
  /\ store = <<>>
  /\ pc = [p \in Procs |-> "idle"]
  /\ call = [p \in Procs |-> NoCall]
  /\ found = [p \in Procs |-> {}]
  /\ res = [p \in Procs |-> "none"]
  /\ log = [p \in Procs |-> <<>>]
  /\ quiet = [p \in Procs |-> FALSE]
  /\ ncalls = 0
  /\ \E c \in PrefixConfigs : \E a \in Triples(c), b \in Triples(c) :
       probe = [a |-> a, b |-> b, composed |-> FALSE, ka |-> <<>>, kb |-> <<>>]

\* `${prefix}:${keyName}:${jwtHash}` for both triples
ComposeProbe ==
  /\ ~probe.composed
  /\ probe' = [probe EXCEPT
                 !.composed = TRUE,
                 !.ka = composeKey(probe.a.prefix, probe.a.keyName, probe.a.jwtHash),
                 !.kb = composeKey(probe.b.prefix, probe.b.keyName, probe.b.jwtHash)]
  /\ UNCHANGED <<store, pc, call, found, res, log, quiet, ncalls, hist>>

NextKeys == ComposeProbe

SpecKeys == InitKeys /\ [][NextKeys]_vars

\* C12: Record keys are unique per triple: two different (category-prefix,
\* identifier, fingerprint) triples of one configuration never compose to
\* the same record key.
C12_KeysUnique ==
  probe.composed => (probe.a # probe.b => probe.ka # probe.kb)

(* --------------------------- stored content ---------------------------- *)
\* the string t occurs in the string s
Contains(s, t) ==
  \E i \in 1..(Len(s) - Len(t) + 1) :
    s[i] = t[1] /\ SubSeq(s, i, i + Len(t) - 1) = t

\* C13: Raw tokens are never persisted: no key of the store, no field value
\* of a record and no key or pattern sent to the store equals or contains a
\* raw token (identifiers and contexts not containing one).
C13_NoRawToken ==
  \A t \in Tokens :
    /\ \A k \in DOMAIN store :
         /\ ~Contains(k, t)
         /\ \A f \in DOMAIN store[k].fields : ~Contains(store[k].fields[f], t)
    /\ \A p \in Procs : \A i \in DOMAIN log[p] :
         \A a \in log[p][i].args : ~Contains(a, t)

\* a record of a token is stored under its fingerprint
C13_Witness ==
  \E p \in Procs :
    /\ pc[p] = "done" /\ call[p].op \in StoreOps /\ res[p] = "ok"
    /\ Has(StoreKeyOf(p))
    /\ store[StoreKeyOf(p)].fields.jwtHash = hashJWT(call[p].rawJWT)
    /\ Contains(StoreKeyOf(p), hashJWT(call[p].rawJWT))

(* ------------------------ requests of validateJWT ---------------------- *)
\* C14: validateJWT(I, T) issues exactly [exists(blacklistedKey)] when that
\* key exists and [exists(blacklistedKey), exists(validKey)] otherwise: the
\* blacklist check comes first, the valid key is not queried once the
\* blacklisted key was found, nothing else is requested, and no step of
\* validate changes the store.
C14_ValidateRequests ==
  [][\A p \in Procs :
       /\ (call[p].op = "validateJWT"
             /\ pc[p] \in {"existsBlacklisted", "existsValid"} /\ pc'[p] # pc[p])
            => /\ store' = store
               /\ pc[p] = "existsBlacklisted"
                    => /\ log[p] = <<>>
                       /\ log'[p] = <<Request("EXISTS", {BlKey(p)})>>
                       /\ res'[p] # "StoreError"
                            => IF Has(BlKey(p))
                               THEN pc'[p] = "done" /\ res'[p] = "Blacklisted"
                               ELSE pc'[p] = "existsValid"
               /\ pc[p] = "existsValid"
                    => /\ log'[p] = <<Request("EXISTS", {BlKey(p)}),
                                      Request("EXISTS", {VaKey(p)})>>
                       /\ pc'[p] = "done"
       /\ (call[p].op = "validateJWT" /\ pc[p] = "done" /\ pc'[p] = "done")
            => log'[p] = log[p]]_vars

\* validate has returned Blacklisted after its single request, the valid
\* record being there unqueried
C14_Witness ==
  \E p \in Procs :
    /\ pc[p] = "done" /\ call[p].op = "validateJWT" /\ res[p] = "Blacklisted"
    /\ log[p] = <<Request("EXISTS", {BlKey(p)})>>
    /\ Has(VaKey(p))

(* ------------------- two clients, calls interleaving ------------------- *)
ConcTokens == {tokA, tokB}
ConcExpirations == {Undefined, Num(1)}

\* the store the clients find: any set of records of identifier u written
\* earlier without expiration
StoredBefore(S) ==
  [k \in {composeKey(x[1], idU, hashJWT(x[2])) : x \in S} |->
     LET x == CHOOSE y \in S : composeKey(y[1], idU, hashJWT(y[2])) = k
     IN  [fields |-> recordFields(idU, x[2], loc1), ttl |-> NoTTL]]

InitConc ==
  /\ hist = [p \in Procs |-> NoHist]
  /\ probe = NoProbe
  /\ \E S \in SUBSET (Prefixes \X ConcTokens) : store = StoredBefore(S)
  /\ pc = [p \in Procs |-> "idle"]
  /\ call = [p \in Procs |-> NoCall]
  /\ found = [p \in Procs |-> {}]
  /\ res = [p \in Procs |-> "none"]
  /\ log = [p \in Procs |-> <<>>]
  /\ quiet = [p \in Procs |-> FALSE]
  /\ ncalls = 0

NextConc ==
  \/ \E p \in Procs, rawJWT \in ConcTokens, expiration \in ConcExpirations :
       ncalls < MaxConcCalls /\ storeValidJWT(p, idU, rawJWT, loc1, expiration)
  \/ \E p \in Procs, rawJWT \in ConcTokens, expiration \in ConcExpirations :
       ncalls < MaxConcCalls /\ storeBlacklistedJWT(p, idU, rawJWT, loc1, expiration)
  \/ \E p \in Procs : HSetReply(p)
  \/ \E p \in Procs : ExpireReply(p)
  \/ \E p \in Procs, rawJWT \in ConcTokens :
       ncalls < MaxConcCalls /\ validateJWT(p, idU, rawJWT)
  \/ \E p \in Procs : ExistsBlacklistedReply(p)
  \/ \E p \in Procs : ExistsValidReply(p)
  \/ \E p \in Procs, prefix \in Prefixes, rawJWT \in ConcTokens :
       ncalls < MaxConcCalls /\ deleteRecord(p, prefix, idU, rawJWT)
  \/ \E p \in Procs : DelReply(p)
  \/ \E p \in Procs, prefix \in Prefixes :
       ncalls < MaxConcCalls /\ deleteAllByKeyName(p, prefix, idU)
  \/ \E p \in Procs : KeysReply(p)
  \/ \E p \in Procs : DelKeysReply(p)
  \/ \E p \in Procs : StoreFailure(p)
  \/ Tick

SpecConc == InitConc /\ [][NextConc]_vars

\* C15: validateJWT is not atomic.  Its second check decides on the valid
\* key alone, as it is at that instant: the call returns true iff the valid
\* key exists then, whether or not the blacklisted key has appeared since the
\* first check, and NotFound iff the valid key is gone then, whether or not
\* it existed when the call began.
C15_SecondCheckAlone ==
  [][\A p \in Procs :
       (call[p].op = "validateJWT" /\ pc[p] = "existsValid" /\ pc'[p] # pc[p]
          /\ res'[p] # "StoreError")
         => /\ res'[p] = "ok" <=> Has(VaKey(p))
            /\ res'[p] = "NotFound" <=> ~Has(VaKey(p))]_vars

\* validate has returned true although storeBlacklistedJWT of the other
\* client completed between its two checks: the blacklisted key was absent
\* and then present during the call, and exists now
C15_Witness ==
  \E p \in Procs, q \in Procs :
    /\ p # q
    /\ pc[p] = "done" /\ call[p].op = "validateJWT" /\ res[p] = "ok"
    /\ hist[p].blAbsent /\ hist[p].blPresent /\ Has(BlKey(p))
    /\ pc[q] = "done" /\ call[q].op = "storeBlacklistedJWT" /\ res[q] = "ok"
    /\ call[q].expiration = Undefined
    /\ StoreKeyOf(q) = BlKey(p)

\* C16: Every verdict of validateJWT is justified by what the store held
\* during the call: true only if the blacklisted key was absent at some
\* instant and the valid key present at a later one; Blacklisted only if the
\* blacklisted key existed at some instant; never true when the blacklisted
\* key existed during the entire call.
C16_VerdictJustified ==
  \A p \in Procs :
    (pc[p] = "done" /\ call[p].op = "validateJWT")
      => /\ res[p] = "ok" => (hist[p].blAbsent /\ hist[p].vaAfter)
         /\ res[p] = "Blacklisted" => hist[p].blPresent
         /\ hist[p].blAlways => res[p] # "ok"

\* validate has answered Blacklisted for a key that the other client has
\* removed since
C16_Witness ==
  \E p \in Procs, q \in Procs :
    /\ p # q
    /\ pc[p] = "done" /\ call[p].op = "validateJWT" /\ res[p] = "Blacklisted"
    /\ hist[p].blPresent /\ ~Has(BlKey(p))
    /\ pc[q] = "done" /\ call[q].op = "deleteRecord" /\ res[q] = "ok"

\* C17: deleteAllByKeyName enumerates and deletes in two steps.  The bulk
\* delete removes exactly the enumerated keys that still exist and nothing
\* else, so a matching record created after the enumeration survives it;
\* enumerated keys that are gone by then cause no error.
C17_DeletesEnumerated ==
  [][\A p \in Procs :
       /\ (pc[p] = "keys" /\ pc'[p] # pc[p] /\ res'[p] # "StoreError")
            => /\ store' = store
               /\ found'[p] = {k \in DOMAIN store :
                                 stringmatch(call[p].prefix \o <<":">>
                                   \o call[p].keyName \o <<":", "*">>, k)}
       /\ (pc[p] = "delKeys" /\ pc'[p] # pc[p] /\ res'[p] # "StoreError")
            => /\ res'[p] = "ok" /\ pc'[p] = "done"
               /\ DOMAIN store' = DOMAIN store \ found[p]
               /\ \A k \in DOMAIN store' : store'[k] = store[k]]_vars

\* between enumeration and bulk delete: a matching record that was not
\* enumerated exists (the other client's store call created it)
C17_Witness ==
  \E p \in Procs, q \in Procs :
    /\ p # q
    /\ pc[p] = "delKeys" /\ found[p] # {}
    /\ call[q].op \in StoreOps /\ pc[q] = "done" /\ res[q] = "ok"
    /\ Has(StoreKeyOf(q)) /\ StoreKeyOf(q) \notin found[p]
    /\ stringmatch(call[p].prefix \o <<":">> \o call[p].keyName \o <<":", "*">>,
                   StoreKeyOf(q))

\* C18: deleteAllByKeyName(category, I) removes only records whose category
\* is 'category' and whose identifier is exactly I: every key its bulk delete
\* removes is the key of (category, I, fingerprint) for some token, whatever
\* characters I contains.
C18_OnlyExactIdentifier ==
  [][\A p \in Procs :
       (call[p].op = "deleteAllByKeyName" /\ pc[p] = "delKeys" /\ pc'[p] # pc[p])
         => \A k \in DOMAIN store \ DOMAIN store' :
              /\ k \in {KeyOf(call[p].prefix, call[p].keyName, t) : t \in Tokens}
              /\ store[k].fields.keyName = call[p].keyName]_vars

\* the requests of one call are pairwise different
IssuedOnce(l) == \A i \in DOMAIN l, j \in DOMAIN l : i # j => l[i] # l[j]

\* C19: No operation retries and every store failure is propagated: within
\* one call each store request is issued at most once; the step on which a
\* request fails ends the call with the store's error, the store untouched;
\* and a call that has failed issues no further request.
C19_NoRetry ==
  [][\A p \in Procs :
       /\ IssuedOnce(log'[p])
       /\ (pc[p] \in Pending /\ res'[p] = "StoreError")
            => /\ pc'[p] = "done"
               /\ log'[p] = Append(log[p], pendingRequest(p))
               /\ store' = store
       /\ (pc[p] = "done" /\ res[p] = "StoreError" /\ call'[p] = call[p]
             /\ ncalls' = ncalls)
            => (pc'[p] = "done" /\ res'[p] = res[p] /\ log'[p] = log[p])]_vars

\* validateJWT has failed on its blacklist check and issued nothing else
C19_Witness ==
  \E p \in Procs :
    /\ pc[p] = "done" /\ call[p].op = "validateJWT" /\ res[p] = "StoreError"
    /\ Len(log[p]) = 1
    /\ log[p][1] = Request("EXISTS", {BlKey(p)})
    /\ Has(VaKey(p)) /\ ~Has(BlKey(p))

\* C20: When no key matches the pattern, deleteAllByKeyName issues no delete
\* call, returns success and leaves the store unchanged: the enumeration is
\* its only request.  When keys match, it goes on to exactly one bulk delete
\* call that carries all enumerated keys.
C20_DeleteOnlyOnMatch ==
  [][\A p \in Procs :
       /\ (pc[p] = "keys" /\ pc'[p] # pc[p] /\ res'[p] # "StoreError")
            => LET ks == keys(store, deletePattern(call[p].prefix, call[p].keyName))
               IN  /\ store' = store
                   /\ ks = {} => /\ pc'[p] = "done" /\ res'[p] = "ok"
                                 /\ Len(log'[p]) = 1
                   /\ ks # {} => (pc'[p] = "delKeys" /\ found'[p] = ks)
       /\ (pc[p] = "delKeys" /\ pc'[p] # pc[p] /\ res'[p] # "StoreError")
            => /\ pc'[p] = "done"
               /\ Len(log'[p]) = 2
               /\ log'[p][2] = Request("DEL", found[p])]_vars

\* deleteAllByKeyName has returned success after its enumeration alone,
\* records of the other category being in the store
C20_Witness ==
  \E p \in Procs :
    /\ pc[p] = "done" /\ call[p].op = "deleteAllByKeyName" /\ res[p] = "ok"
    /\ quiet[p]
    /\ Len(log[p]) = 1
    /\ store # <<>>
    /\ keys(store, deletePattern(call[p].prefix, call[p].keyName)) = {}

(* ---------- a recorded token, blacklisted for a shorter time ------------ *)
\* what storeValidJWT(idU, tokA, loc1, v) leaves in an empty store
StoredValid(v) ==
  expire(hSet(<<>>, storeValidKey(idU, tokA), recordFields(idU, tokA, loc1)),
         storeValidKey(idU, tokA), v)

InitExpiry ==
  /\ hist = [p \in Procs |-> NoHist]
  /\ probe = NoProbe
  /\ \E v \in 2..MaxTTL : store = StoredValid(v)
  /\ pc = [p \in Procs |-> "idle"]
  /\ call = [p \in Procs |-> NoCall]
  /\ found = [p \in Procs |-> {}]
  /\ res = [p \in Procs |-> "none"]
  /\ log = [p \in Procs |-> <<>>]
  /\ quiet = [p \in Procs |-> FALSE]
  /\ ncalls = 0

\* callers in turn; the token is blacklisted for less than the time its
\* valid record has left
NextExpiry ==
  \/ \E p \in Procs, b \in 1..MaxTTL :
       /\ AllReturned
       /\ Has(validKey(idU, tokA))
       /\ store[validKey(idU, tokA)].ttl # NoTTL
       /\ b < store[validKey(idU, tokA)].ttl
       /\ storeBlacklistedJWT(p, idU, tokA, loc1, Num(b))
  \/ \E p \in Procs : HSetReply(p)
  \/ \E p \in Procs : ExpireReply(p)
  \/ \E p \in Procs : AllReturned /\ validateJWT(p, idU, tokA)
  \/ \E p \in Procs : ExistsBlacklistedReply(p)
  \/ \E p \in Procs : ExistsValidReply(p)
  \/ \E p \in Procs : StoreFailure(p)
  \/ Tick

SpecExpiry == InitExpiry /\ [][NextExpiry]_vars

\* C21: Blacklisting lasts only as long as the blacklisted key lives.
\* storeBlacklistedJWT with a positive ttl b goes on to set b as the key's
\* expiration; validateJWT fails with Blacklisted whenever its first check
\* finds the blacklisted key, and returns true when the first check finds it
\* gone and the second finds the valid key; and the passing of time, with no
\* operation called, removes exactly the keys whose time is up and leaves
\* the others in place.
C21_BlacklistUntilExpiry ==
  [][/\ \A p \in Procs :
          /\ (call[p].op = "storeBlacklistedJWT" /\ Positive(call[p].expiration)
                /\ pc[p] = "hSet" /\ pc'[p] # pc[p] /\ res'[p] # "StoreError")
               => pc'[p] = "expire"
          /\ (call[p].op = "storeBlacklistedJWT" /\ pc[p] = "expire"
                /\ pc'[p] # pc[p] /\ res'[p] # "StoreError" /\ Has(StoreKeyOf(p)))
               => /\ StoreKeyOf(p) = BlKey(p)
                  /\ Has(BlKey(p))'
                  /\ store'[BlKey(p)].ttl = call[p].expiration.n
          /\ (call[p].op = "validateJWT" /\ pc[p] = "existsBlacklisted"
                /\ pc'[p] # pc[p] /\ res'[p] # "StoreError")
               => IF Has(BlKey(p))
                  THEN pc'[p] = "done" /\ res'[p] = "Blacklisted"
                  ELSE pc'[p] = "existsValid"
          /\ (call[p].op = "validateJWT" /\ pc[p] = "existsValid"
                /\ pc'[p] # pc[p] /\ res'[p] # "StoreError" /\ Has(VaKey(p)))
               => (pc'[p] = "done" /\ res'[p] = "ok")
     /\ (pc' = pc /\ store' # store)
          => /\ DOMAIN store' = {k \in DOMAIN store : store[k].ttl # 1}
             /\ \A k \in DOMAIN store' :
                  /\ store'[k].fields = store[k].fields
                  /\ store'[k].ttl = IF store[k].ttl = NoTTL THEN NoTTL
                                     ELSE store[k].ttl - 1]_vars

\* the token was blacklisted for a shorter time than its valid record
\* lives: client q's validateJWT failed with Blacklisted, the blacklisted
\* key has expired since, and client p's validateJWT, the last thing that
\* happened, has returned true, the valid record still having time left
C21_Witness ==
  \E p \in Procs, q \in Procs :
    /\ p # q
    /\ ncalls = 3
    /\ pc[q] = "done" /\ call[q].op = "validateJWT" /\ res[q] = "Blacklisted"
    /\ pc[p] = "done" /\ call[p].op = "validateJWT" /\ res[p] = "ok"
    /\ call[p] = call[q]
    /\ quiet[p]
    /\ ~Has(BlKey(p))
    /\ Has(VaKey(p)) /\ store[VaKey(p)].ttl > 0

=============================================================================
